---------------------------- MODULE Spec2Model ----------------------------
(***************************************************************************)
(* A model of src/document_processor.py: the four format adapters, the     *)
(* heading classifier, the Q&A synthesizer with its answer enhancer and    *)
(* keyword extractor, and the batch driver that names and writes output.   *)
(*                                                                         *)
(* A text is the sequence of the Unicode code points of its characters,    *)
(* so that trimming, prefix and substring tests, regular-expression        *)
(* matching and number formatting are computed on characters.              *)
(***************************************************************************)
EXTENDS Integers, Sequences, FiniteSets, TLC

VARIABLES
    \* --- one adapter run followed by convert_to_qa_format ---
    adapter,          \* which process_* method runs: "word", "pdf", "excel", "powerpoint"
    body,             \* the elements / pages / sheets / slides consumed so far
    content,          \* the adapter's content dict (None after a caught failure)
    current_section,  \* process_word's current_section accumulator
    apc,              \* position of the run: "run", "done", "qa"
    qa_pairs,         \* the list returned by convert_to_qa_format
    \* --- the batch driver ---
    files,            \* the files os.walk yields, in traversal order
    file_index,       \* number of files the loop has consumed
    processed_count,  \* self.processed_count
    output_dir,       \* the writes made to self.output_dir, in order
    log,              \* the records handed to logger
    bpc,              \* "walk" while the loop runs, "done" after its last line
    \* --- enhance_answer applied to one raw answer ---
    answer,
    enhanced,
    \* --- extract_keywords in two runs of the interpreter ---
    kw_content,
    kw_runs

vars == <<adapter, body, content, current_section, apc, qa_pairs,
          files, file_index, processed_count, output_dir, log, bpc,
          answer, enhanced, kw_content, kw_runs>>

adapterVars == <<adapter, body, content, current_section, apc, qa_pairs>>
batchVars   == <<files, file_index, processed_count, output_dir, bpc>>
enhanceVars == <<answer, enhanced>>
keywordVars == <<kw_content, kw_runs>>

(***************************************************************************)
(* Bounds of the model.                                                    *)
(***************************************************************************)
MaxBody == 3      \* pages, sheets or slides of one document
MaxWordBody == 4  \* paragraphs and tables of one text document

(***************************************************************************)
(* Python's None.                                                          *)
(***************************************************************************)
None == [tag |-> "None"]

(***************************************************************************)
(* Text primitives.                                                        *)
(***************************************************************************)
\* str.isspace / the \s class, for the characters the inputs use
IsSpace(c) == c \in {9, 10, 11, 12, 13, 28, 29, 30, 31, 32, 133, 160, 12288}

\* the \d class: ASCII and full-width decimal digits
IsDigit(c) == (c >= 48 /\ c <= 57) \/ (c >= 65296 /\ c <= 65305)

\* the class [一二三四五六七八九十]
IsCnNumeral(c) ==
    c \in {19968, 20108, 19977, 22235, 20116, 20845, 19971, 20843, 20061, 21313}

RECURSIVE LStrip(_)
LStrip(s) == IF s # <<>> /\ IsSpace(Head(s)) THEN LStrip(Tail(s)) ELSE s

RECURSIVE RStrip(_)
RStrip(s) ==
    IF s # <<>> /\ IsSpace(s[Len(s)]) THEN RStrip(SubSeq(s, 1, Len(s) - 1)) ELSE s

\* str.strip()
Strip(s) == RStrip(LStrip(s))

\* str.startswith(p)
StartsWith(s, p) == Len(s) >= Len(p) /\ SubSeq(s, 1, Len(p)) = p

\* the occurrence of p in s that starts at index i
OccursAt(s, p, i) == i + Len(p) - 1 <= Len(s) /\ SubSeq(s, i, i + Len(p) - 1) = p

\* p in s
Contains(s, p) == \E i \in 1..(Len(s) + 1) : OccursAt(s, p, i)

\* the first index at or after i whose character is not in the class, or
\* Len(s) + 1: where a greedy "class+" started at i stops
\* the [一-鿿] class
IsCjk(c) == c >= 19968 /\ c <= 40959

\* membership of a character in a named class of the patterns
InClass(class, c) ==
    CASE class = "space"      -> IsSpace(c)
      [] class = "digit"      -> IsDigit(c)
      [] class = "cn"         -> IsCnNumeral(c)
      [] class = "cn_or_digit" -> IsCnNumeral(c) \/ IsDigit(c)
      [] class = "cjk"        -> IsCjk(c)

RunEnd(s, i, class) ==
    CHOOSE j \in i..(Len(s) + 1) :
        /\ \A k \in i..(j - 1) : InClass(class, s[k])
        /\ (j = Len(s) + 1 \/ ~InClass(class, s[j]))

RECURSIVE Concat(_)
Concat(ss) == IF ss = <<>> THEN <<>> ELSE Head(ss) \o Concat(Tail(ss))

\* sep.join(parts)
RECURSIVE Join(_, _)
Join(sep, parts) ==
    IF parts = <<>> THEN <<>>
    ELSE IF Len(parts) = 1 THEN parts[1]
    ELSE parts[1] \o sep \o Join(sep, Tail(parts))

\* str(n) for n >= 0
RECURSIVE Decimal(_)
Decimal(n) == IF n < 10 THEN <<48 + n>> ELSE Decimal(n \div 10) \o <<48 + (n % 10)>>

\* f"{n:02d}" for n >= 0
Format02d(n) == IF n < 10 THEN <<48>> \o Decimal(n) ELSE Decimal(n)

\* str.lower(), for the ASCII letters
LowerChar(c) == IF c >= 65 /\ c <= 90 THEN c + 32 ELSE c
Lower(s) == [i \in 1..Len(s) |-> LowerChar(s[i])]

(***************************************************************************)
(* is_heading                                                              *)
(***************************************************************************)
IsDotOrSpace(c) == c = 46 \/ IsSpace(c)

\* r'^第[一二三四五六七八九十\d]+[章节部分]'
MatchChapter(t) ==
    /\ Len(t) >= 3
    /\ t[1] = 31532
    /\ LET j == RunEnd(t, 2, "cn_or_digit")
       IN  j > 2 /\ j <= Len(t) /\ t[j] \in {31456, 33410, 37096, 20998}

\* r'^\d+[\.\s]'
MatchNumbered(t) ==
    LET j == RunEnd(t, 1, "digit")
    IN  j > 1 /\ j <= Len(t) /\ IsDotOrSpace(t[j])

\* r'^[一二三四五六七八九十]+[\.\s]'
MatchCnNumbered(t) ==
    LET j == RunEnd(t, 1, "cn")
    IN  j > 1 /\ j <= Len(t) /\ IsDotOrSpace(t[j])

\* r'^<label>[:：]'
MatchLabel(t, label) ==
    /\ StartsWith(t, label)
    /\ Len(t) > Len(label)
    /\ t[Len(label) + 1] \in {58, 65306}

LabelProblem  == <<38382, 39064>>                \* 问题
LabelSolution == <<35299, 20915, 26041, 26696>>  \* 解决方案
LabelSteps    == <<27493, 39588>>                \* 步骤
LabelNote     == <<27880, 24847>>                \* 注意

\* ['问题', '解决', '步骤', '方法', '设置', '配置']
HeadingKeywords ==
    { <<38382, 39064>>, <<35299, 20915>>, <<27493, 39588>>,
      <<26041, 27861>>, <<35774, 32622>>, <<37197, 32622>> }

ShortHeadingLen == 50

is_heading(text) ==
    LET t == Strip(text)
    IN  \/ MatchChapter(t)
        \/ MatchNumbered(t)
        \/ MatchCnNumbered(t)
        \/ MatchLabel(t, LabelProblem)
        \/ MatchLabel(t, LabelSolution)
        \/ MatchLabel(t, LabelSteps)
        \/ MatchLabel(t, LabelNote)
        \/ (Len(t) < ShortHeadingLen /\ \E k \in HeadingKeywords : Contains(text, k))

(***************************************************************************)
(* base64.b64encode(...).decode(): the bytes of an image, three at a time,  *)
(* as four characters of the base64 alphabet, '=' padded.                   *)
(***************************************************************************)
B64Char(v) ==
    IF v < 26 THEN 65 + v
    ELSE IF v < 52 THEN 97 + (v - 26)
    ELSE IF v < 62 THEN 48 + (v - 52)
    ELSE IF v = 62 THEN 43 ELSE 47

RECURSIVE b64encode(_)
b64encode(bytes) ==
    IF bytes = <<>> THEN <<>>
    ELSE IF Len(bytes) = 1 THEN
        LET n == bytes[1] * 65536
        IN  <<B64Char(n \div 262144), B64Char((n \div 4096) % 64), 61, 61>>
    ELSE IF Len(bytes) = 2 THEN
        LET n == bytes[1] * 65536 + bytes[2] * 256
        IN  <<B64Char(n \div 262144), B64Char((n \div 4096) % 64),
              B64Char((n \div 64) % 64), 61>>
    ELSE
        LET n == bytes[1] * 65536 + bytes[2] * 256 + bytes[3]
        IN  <<B64Char(n \div 262144), B64Char((n \div 4096) % 64),
              B64Char((n \div 64) % 64), B64Char(n % 64)>>
            \o b64encode(SubSeq(bytes, 4, Len(bytes)))

(***************************************************************************)
(* The content dict every adapter starts from, and a fresh section.        *)
(* title is file_path.stem; source_file is not read by any method.         *)
(***************************************************************************)
NewContent(title, type) ==
    [title |-> title, type |-> type, sections |-> <<>>, images |-> <<>>]

NewSection(heading) ==
    [heading |-> heading, content |-> <<>>, tables |-> <<>>, images |-> <<>>]

(***************************************************************************)
(* process_word.  An element of doc.element.body is a paragraph            *)
(* [kind |-> "p", style, text] or a table [kind |-> "tbl", rows]; st holds *)
(* content['sections'] and current_section.                                *)
(***************************************************************************)
StyleNormal   == <<78, 111, 114, 109, 97, 108>>              \* "Normal"
StyleHeading1 == <<72, 101, 97, 100, 105, 110, 103, 32, 49>> \* "Heading 1"
HeadingPrefix == <<72, 101, 97, 100, 105, 110, 103>>         \* "Heading"

StripAll(row) == [i \in 1..Len(row) |-> Strip(row[i])]

extract_table_data(table) ==
    [headers |-> IF Len(table) >= 1 THEN StripAll(table[1]) ELSE <<>>,
     rows    |-> [i \in 1..(Len(table) - 1) |-> StripAll(table[i + 1])]]

\* the test that guards both appends of current_section
HasContentOrTables(section) == section.content # <<>> \/ section.tables # <<>>

\* a flush that does not test the section
FlushSectionAlways(sections, section) == Append(sections, section)

FlushSection(sections, section) ==
    IF HasContentOrTables(section) THEN Append(sections, section) ELSE sections

\* a test that takes every paragraph for a heading
IsHeadingParagraphAny(style, text) == TRUE

\* the paragraph opens a new section
IsHeadingParagraph(style, text) == StartsWith(style, HeadingPrefix) \/ is_heading(text)

WordElement(st, element) ==
    IF element.kind = "p" THEN
        LET text == Strip(element.text)
        IN  IF text = <<>> THEN st
            ELSE IF IsHeadingParagraph(element.style, text) THEN
                [sections        |-> FlushSection(st.sections, st.current_section),
                 current_section |-> NewSection(text)]
            ELSE
                [st EXCEPT !.current_section.content = @ \o text \o <<10>>]
    ELSE
        [st EXCEPT !.current_section.tables = Append(@, extract_table_data(element.rows))]

\* extract_word_images: a relationship is [target_ref, blob, rId, readable]
ImageWord == <<105, 109, 97, 103, 101>>   \* "image"

\* s.split('.')[-1]
RECURSIVE AfterLastDot(_)
AfterLastDot(s) ==
    IF \E i \in 1..Len(s) : s[i] = 46
    THEN AfterLastDot(SubSeq(s, (CHOOSE i \in 1..Len(s) : s[i] = 46) + 1, Len(s)))
    ELSE s

RECURSIVE extract_word_images(_)
extract_word_images(rels) ==
    IF rels = <<>> THEN <<>>
    ELSE LET rel == Head(rels)
         IN  (IF Contains(rel.target_ref, ImageWord) /\ rel.readable
              THEN << [data        |-> b64encode(rel.blob),
                       format      |-> AfterLastDot(rel.target_ref),
                       relation_id |-> rel.rId] >>
              ELSE <<>>)
             \o extract_word_images(Tail(rels))

WordEnd(title, st, rels) ==
    [NewContent(title, "word") EXCEPT
        !.sections = FlushSection(st.sections, st.current_section),
        !.images   = extract_word_images(rels)]

(***************************************************************************)
(* process_pdf.  A page is [text, images]; an image reference is           *)
(* [readable, n, png]: whether fitz.Pixmap succeeds, its channel count,    *)
(* and the bytes tobytes("png") gives.  page_num is 0-based.               *)
(***************************************************************************)
PageHeading(page_num) == <<31532>> \o Decimal(page_num + 1) \o <<39029>>  \* 第n页
Png == <<112, 110, 103>>
MaxPngChannels == 5

RECURSIVE PdfImages(_, _, _)
PdfImages(image_list, img_index, page_num) ==
    IF img_index >= Len(image_list) THEN <<>>
    ELSE LET img == image_list[img_index + 1]
         IN  (IF img.readable /\ img.n < MaxPngChannels
              THEN << [page   |-> page_num + 1,
                       index  |-> img_index,
                       data   |-> b64encode(img.png),
                       format |-> Png] >>
              ELSE <<>>)
             \o PdfImages(image_list, img_index + 1, page_num)

PdfPage(c, page, page_num) ==
    [c EXCEPT
        !.sections = IF Strip(page.text) # <<>>
                     THEN Append(@, [NewSection(PageHeading(page_num)) EXCEPT
                                        !.content = page.text])
                     ELSE @,
        !.images   = @ \o PdfImages(page.images, 0, page_num)]

(***************************************************************************)
(* process_excel.  A sheet is [name, rows]; a cell is None, a string       *)
(* [s |-> text] or a non-negative integer [n |-> value].                   *)
(***************************************************************************)
SheetPrefix == <<24037, 20316, 34920, 58, 32>>   \* "工作表: "

\* str(cell)
CellStr(cell) == IF "s" \in DOMAIN cell THEN cell.s ELSE Decimal(cell.n)

RowStrings(row) == [i \in 1..Len(row) |-> IF row[i] # None THEN CellStr(row[i]) ELSE <<>>]

RECURSIVE SheetData(_)
SheetData(rows) ==
    IF rows = <<>> THEN <<>>
    ELSE (IF \E i \in 1..Len(Head(rows)) : Head(rows)[i] # None
          THEN <<RowStrings(Head(rows))>> ELSE <<>>)
         \o SheetData(Tail(rows))

ExcelSheet(c, sheet) ==
    LET sheet_data == SheetData(sheet.rows)
    IN  IF sheet_data # <<>>
        THEN [c EXCEPT !.sections =
                Append(@, [NewSection(SheetPrefix \o sheet.name) EXCEPT
                              !.tables = << [data |-> sheet_data] >>])]
        ELSE c

(***************************************************************************)
(* process_powerpoint.  A shape is [has_text, text, picture, readable,     *)
(* blob, ext]; slide_num is 0-based.                                       *)
(***************************************************************************)
SlidePrefix == <<24187, 28783, 29255, 32>>   \* "幻灯片 "

RECURSIVE SlideText(_)
SlideText(shapes) ==
    IF shapes = <<>> THEN <<>>
    ELSE (IF Head(shapes).has_text THEN Head(shapes).text \o <<10>> ELSE <<>>)
         \o SlideText(Tail(shapes))

RECURSIVE SlideImages(_, _)
SlideImages(shapes, slide_num) ==
    IF shapes = <<>> THEN <<>>
    ELSE (IF Head(shapes).picture /\ Head(shapes).readable
          THEN << [slide  |-> slide_num + 1,
                   data   |-> b64encode(Head(shapes).blob),
                   format |-> Head(shapes).ext] >>
          ELSE <<>>)
         \o SlideImages(Tail(shapes), slide_num)

\* a slide adapter that keeps a slide's pictures only when the slide has text
PowerpointSlideOwned(c, slide, slide_num) ==
    LET slide_content ==
            [NewSection(SlidePrefix \o Decimal(slide_num + 1)) EXCEPT
                !.content = SlideText(slide.shapes)]
    IN  IF Strip(slide_content.content) # <<>>
        THEN [c EXCEPT
                !.images   = @ \o SlideImages(slide.shapes, slide_num),
                !.sections = Append(@, slide_content)]
        ELSE c

PowerpointSlide(c, slide, slide_num) ==
    LET slide_content ==
            [NewSection(SlidePrefix \o Decimal(slide_num + 1)) EXCEPT
                !.content = SlideText(slide.shapes)]
    IN  [c EXCEPT
            !.images   = @ \o SlideImages(slide.shapes, slide_num),
            !.sections = IF Strip(slide_content.content) # <<>>
                         THEN Append(@, slide_content) ELSE @]

(***************************************************************************)
(* enhance_answer                                                          *)
(***************************************************************************)
\* SELECT, INSERT, UPDATE, DELETE, CREATE, ALTER, DROP, in pattern order
SqlKeywords ==
    << <<83, 69, 76, 69, 67, 84>>, <<73, 78, 83, 69, 82, 84>>,
       <<85, 80, 68, 65, 84, 69>>, <<68, 69, 76, 69, 84, 69>>,
       <<67, 82, 69, 65, 84, 69>>, <<65, 76, 84, 69, 82>>, <<68, 82, 79, 80>> >>

\* the keywords of the alternation that match at index i, ignoring case
SqlKeywordsAt(a, i) ==
    { k \in 1..Len(SqlKeywords) :
        /\ i + Len(SqlKeywords[k]) - 1 <= Len(a)
        /\ Lower(SubSeq(a, i, i + Len(SqlKeywords[k]) - 1)) = Lower(SqlKeywords[k]) }

\* r'(SELECT|...|DROP)\s+.*?;' with IGNORECASE | DOTALL, tried at index i:
\* the keyword, at least one whitespace character, then lazily up to the
\* first ';'.  Gives [first, last, group_end], or None when there is no match.
SqlMatchAt(a, i) ==
    IF SqlKeywordsAt(a, i) = {} THEN None
    ELSE LET k == CHOOSE kk \in SqlKeywordsAt(a, i) : \A o \in SqlKeywordsAt(a, i) : kk <= o
             g == i + Len(SqlKeywords[k]) - 1
             semis == { j \in (g + 2)..Len(a) : a[j] = 59 }
         IN  IF g + 1 <= Len(a) /\ IsSpace(a[g + 1]) /\ semis # {}
             THEN [first |-> i, group_end |-> g,
                   last |-> CHOOSE j \in semis : \A o \in semis : j <= o]
             ELSE None

\* the successive non-overlapping matches re.findall scans, from index i on
RECURSIVE SqlScan(_, _)
SqlScan(a, i) ==
    IF i > Len(a) THEN <<>>
    ELSE LET m == SqlMatchAt(a, i)
         IN  IF m = None THEN SqlScan(a, i + 1)
             ELSE <<m>> \o SqlScan(a, m.last + 1)

\* re.findall(sql_pattern, answer, ...): the pattern has one capturing group,
\* so findall returns the text of that group for each match
SqlFindall(a) ==
    LET ms == SqlScan(a, 1)
    IN  [n \in 1..Len(ms) |-> SubSeq(a, ms[n].first, ms[n].group_end)]

\* the text of each whole match, in the order found
SqlStatements(a) ==
    LET ms == SqlScan(a, 1)
    IN  [n \in 1..Len(ms) |-> SubSeq(a, ms[n].first, ms[n].last)]

Step == <<27493, 39588>>   \* 步骤

\* r'步骤\s*\d+' tried at index i: the index after its last digit, or 0
StepLeadEnd(a, i) ==
    IF ~OccursAt(a, Step, i) THEN 0
    ELSE LET j == RunEnd(a, i + 2, "space")
             k == RunEnd(a, j, "digit")
         IN  IF k > j THEN k ELSE 0

\* the lookahead (?=步骤\s*\d+|$) at index p
StepLookahead(a, p) ==
    \/ StepLeadEnd(a, p) > 0
    \/ p = Len(a) + 1
    \/ (p = Len(a) /\ a[p] = 10)

\* r'步骤\s*\d+[:：](.+?)(?=步骤\s*\d+|$)' with DOTALL, tried at index i:
\* [first, last] of the captured group, or None
StepMatchAt(a, i) ==
    LET k == StepLeadEnd(a, i)
    IN  IF k > 0 /\ k < Len(a) /\ a[k] \in {58, 65306}
        THEN [first |-> k + 1,
              last  |-> CHOOSE e \in (k + 1)..Len(a) :
                            /\ StepLookahead(a, e + 1)
                            /\ \A o \in (k + 1)..(e - 1) : ~StepLookahead(a, o + 1)]
        ELSE None

RECURSIVE StepFindall(_, _)
StepFindall(a, i) ==
    IF i > Len(a) THEN <<>>
    ELSE LET m == StepMatchAt(a, i)
         IN  IF m = None THEN StepFindall(a, i + 1)
             ELSE <<SubSeq(a, m.first, m.last)>> \o StepFindall(a, m.last + 1)

SqlHeading   == <<10, 10, 30456, 20851, 83, 81, 76, 35821, 21477, 65306, 10>>
FenceOpen    == <<96, 96, 96, 115, 113, 108, 10>>
FenceClose   == <<10, 96, 96, 96, 10>>
StepsHeading == <<10, 10, 25805, 20316, 27493, 39588, 65306, 10>>

\* f"```sql\n{sql}\n```\n"
SqlBlock(sql) == FenceOpen \o sql \o FenceClose

SqlBlocks(sqls) == Concat([n \in 1..Len(sqls) |-> SqlBlock(sqls[n])])

\* f"{i}. {step.strip()}\n", i counted from 1
StepLines(steps) ==
    Concat([n \in 1..Len(steps) |-> Decimal(n) \o <<46, 32>> \o Strip(steps[n]) \o <<10>>])

enhance_answer(a, base_context) ==
    LET sql_matches == SqlFindall(a)
        steps == IF Contains(a, Step) THEN StepFindall(a, 1) ELSE <<>>
    IN  base_context \o <<10, 10>> \o a
        \o (IF sql_matches # <<>> THEN SqlHeading \o SqlBlocks(sql_matches) ELSE <<>>)
        \o (IF steps # <<>> THEN StepsHeading \o StepLines(steps) ELSE <<>>)

(***************************************************************************)
(* convert_to_qa_format and the three paths it calls.                      *)
(*                                                                         *)
(* Every pair carries an origin <<section, slot>> that the code's dict     *)
(* does not have: the 1-based section it was made from with slot 0 for the *)
(* text and k for the k-th table, or <<number of sections + 1, k>> for the *)
(* k-th image.  A text pair's question and keywords are not modelled here; *)
(* extract_keywords is modelled on its own below.                          *)
(***************************************************************************)
SourcePrefix == <<25991, 26723, 26469, 28304, 65306>>        \* "文档来源："
TableTitle   == <<34920, 26684, 26631, 39064, 65306>>        \* "表格标题："
TableBody    == <<34920, 26684, 20869, 23481, 65306, 10>>    \* "表格内容：\n"
ColSep       == <<32, 124, 32>>                              \* " | "
Dashes       == <<45, 45, 45>>                               \* "---"
Bar          == <<124>>                                      \* "|"
About        == <<20851, 20110>>                             \* "关于"
Details      == <<30340, 35814, 32454, 20449, 24687>>        \* "的详细信息"
PicIn        == <<20013, 30340, 22270, 29255>>               \* "中的图片"
PicThis      == <<36825, 26159, 26469, 33258, 25991, 26723, 12298>>  \* "这是来自文档《"
PicNth       == <<12299, 30340, 31532>>                      \* "》的第"
PicEnd       == <<24352, 22270, 29255, 12290>>               \* "张图片。"
At           == <<20301, 20110, 31532>>                      \* "位于第"
AtPage       == <<39029, 12290>>                             \* "页。"
AtSlide      == <<24352, 24187, 28783, 29255, 12290>>        \* "张幻灯片。"
KwPicture    == <<22270, 29255>>                             \* "图片"
KwImage      == <<22270, 20687>>                             \* "图像"
Unknown      == <<117, 110, 107, 110, 111, 119, 110>>        \* "unknown"

\* re.sub(r'\n+', '\n', s)
RECURSIVE CollapseNewlines(_)
CollapseNewlines(s) ==
    IF s = <<>> THEN <<>>
    ELSE IF Head(s) = 10 /\ Len(s) >= 2 /\ s[2] = 10 THEN CollapseNewlines(Tail(s))
    ELSE <<Head(s)>> \o CollapseNewlines(Tail(s))

extract_qa_from_text(heading, text_content, base_context) ==
    LET cleaned == CollapseNewlines(Strip(text_content))
    IN  [answer |-> enhance_answer(cleaned, base_context),
         source |-> base_context,
         type   |-> "text"]

\* table.get(key, [])
TableGet(table, key) == IF key \in DOMAIN table THEN table[key] ELSE <<>>

extract_qa_from_table(heading, table, base_context) ==
    LET headers == TableGet(table, "headers")
        rows    == TableGet(table, "rows")
    IN  IF headers = <<>> \/ rows = <<>> THEN None
        ELSE [question |-> About \o heading \o Details,
              answer   |-> TableTitle \o heading \o <<10>> \o TableBody
                           \o Join(ColSep, headers) \o <<10>>
                           \o Join(Bar, [i \in 1..Len(headers) |-> Dashes]) \o <<10>>
                           \o Concat([r \in 1..Len(rows) |-> Join(ColSep, rows[r]) \o <<10>>]),
              keywords |-> Append(headers, heading),
              source   |-> base_context,
              type     |-> "table"]

create_image_qa(doc_title, image, index, base_context) ==
    [question     |-> doc_title \o PicIn \o Decimal(index + 1),
     answer       |-> PicThis \o doc_title \o PicNth \o Decimal(index + 1) \o PicEnd
                      \o (IF "page" \in DOMAIN image
                          THEN At \o Decimal(image.page) \o AtPage
                          ELSE IF "slide" \in DOMAIN image
                          THEN At \o Decimal(image.slide) \o AtSlide
                          ELSE <<>>),
     keywords     |-> <<doc_title, KwPicture, KwImage>>,
     source       |-> base_context,
     type         |-> "image",
     image_data   |-> image.data,
     image_format |-> IF "format" \in DOMAIN image THEN image.format ELSE Unknown]

WithOrigin(pair, section, slot) == [f \in DOMAIN pair \cup {"origin"} |->
                                       IF f = "origin" THEN <<section, slot>> ELSE pair[f]]

\* the pairs of the tables of one section, from table number k on
RECURSIVE TablePairs(_, _, _, _)
TablePairs(section, n, k, base_context) ==
    IF k > Len(section.tables) THEN <<>>
    ELSE LET table_qa == extract_qa_from_table(section.heading, section.tables[k], base_context)
         IN  (IF table_qa # None THEN <<WithOrigin(table_qa, n, k)>> ELSE <<>>)
             \o TablePairs(section, n, k + 1, base_context)

\* one iteration of "for section in content['sections']"
SectionPairs(section, n, base_context) ==
    (IF Strip(section.content) # <<>>
     THEN <<WithOrigin(extract_qa_from_text(section.heading, section.content, base_context), n, 0)>>
     ELSE <<>>)
    \o TablePairs(section, n, 1, base_context)

ImagePairs(c, base_context) ==
    [k \in 1..Len(c.images) |->
        WithOrigin(create_image_qa(c.title, c.images[k], k - 1, base_context),
                   Len(c.sections) + 1, k)]

\* a synthesizer that handles the images before the sections
convert_images_first(c) ==
    LET base_context == SourcePrefix \o c.title
    IN  ImagePairs(c, base_context)
        \o Concat([n \in 1..Len(c.sections) |-> SectionPairs(c.sections[n], n, base_context)])

convert_to_qa_format(c) ==
    LET base_context == SourcePrefix \o c.title
    IN  Concat([n \in 1..Len(c.sections) |-> SectionPairs(c.sections[n], n, base_context)])
        \o ImagePairs(c, base_context)

(***************************************************************************)
(* Log records.  event names the logger call; path is the file path the    *)
(* message carries, or <<>> when the message carries none.                 *)
(***************************************************************************)
LogRecord(level, event, path) == [level |-> level, event |-> event, path |-> path]

\* one warning per image whose extraction raised
RECURSIVE AssetWarnings(_, _)
AssetWarnings(items, event) ==
    IF items = <<>> THEN <<>>
    ELSE (IF Head(items).readable THEN <<>> ELSE <<LogRecord("warning", event, <<>>)>>)
         \o AssetWarnings(Tail(items), event)

\* the relationships extract_word_images tries to read
RECURSIVE ImageRels(_)
ImageRels(rels) ==
    IF rels = <<>> THEN <<>>
    ELSE (IF Contains(Head(rels).target_ref, ImageWord) THEN <<Head(rels)>> ELSE <<>>)
         \o ImageRels(Tail(rels))

\* the shapes process_powerpoint tries to read an image from
RECURSIVE PictureShapes(_)
PictureShapes(shapes) ==
    IF shapes = <<>> THEN <<>>
    ELSE (IF Head(shapes).picture THEN <<Head(shapes)>> ELSE <<>>)
         \o PictureShapes(Tail(shapes))

(***************************************************************************)
(* The documents the adapters are run on.                                  *)
(***************************************************************************)
TxtBlank    == <<32, 32>>                      \* "  "
TxtIntro    == <<73, 110, 116, 114, 111>>      \* "Intro"
TxtNumbered == <<49, 46, 32, 120>>             \* "1. x"
TxtShortKw  == <<32, 35774, 32622, 120, 32>>   \* " 设置x "
TxtA        == <<65>>
TxtB        == <<66, 32>>
Txt1        == <<49>>
Txt2        == <<32, 50>>
Title       == <<100, 111, 99>>                \* "doc"

Paragraph(style, text) == [kind |-> "p", style |-> style, text |-> text]
TableElement(rows) == [kind |-> "tbl", rows |-> rows]

WordElements ==
    { Paragraph(StyleNormal, tx) :
        tx \in {TxtBlank, TxtIntro, TxtNumbered, TxtShortKw} }
    \cup { Paragraph(StyleHeading1, TxtIntro),
           TableElement(<<>>), TableElement(<< <<TxtA, TxtB>>, <<Txt1, Txt2>> >>) }

RefImage  == <<109, 101, 100, 105, 97, 47, 105, 109, 97, 103, 101, 49, 46, 112, 110, 103>>
RefStyles == <<115, 116, 121, 108, 101, 115, 46, 120, 109, 108>>

Rel(target_ref, rId, readable) ==
    [target_ref |-> target_ref, blob |-> <<137, 80>>, rId |-> rId, readable |-> readable]

WordRels ==
    { << Rel(RefStyles, 1, TRUE), Rel(RefImage, 2, TRUE), Rel(RefImage, 3, TRUE) >>,
      << Rel(RefImage, 1, FALSE) >> }

PdfImage(readable, n) == [readable |-> readable, n |-> n, png |-> <<137, 80, 78, 71>>]

PdfPages ==
    { [text |-> tx, images |-> im] :
        tx \in {<<32, 10>>, TxtIntro},
        im \in { <<>>, <<PdfImage(TRUE, 3)>>, <<PdfImage(FALSE, 3), PdfImage(TRUE, 1)>>,
                 <<PdfImage(TRUE, 5)>> } }

Sheet1 == <<83, 104, 101, 101, 116, 49>>
Sheet2 == <<83, 104, 101, 101, 116, 50>>
Name   == [s |-> <<78, 97, 109, 101>>]
Age    == [s |-> <<65, 103, 101>>]
Bob    == [s |-> <<66, 111, 98>>]
Thirty == [n |-> 30]

ExcelSheets ==
    { [name |-> nm, rows |-> rw] :
        nm \in {Sheet1, Sheet2},
        rw \in { <<>>, << <<None, None>> >>,
                 << <<Name, Age>>, <<Bob, Thirty>> >>,
                 << <<None, Bob>>, <<None, None>> >> } }

TextShape(text) ==
    [has_text |-> TRUE, text |-> text, picture |-> FALSE, readable |-> TRUE,
     blob |-> <<>>, ext |-> <<>>]
PictureShape(readable) ==
    [has_text |-> FALSE, text |-> <<>>, picture |-> TRUE, readable |-> readable,
     blob |-> <<255, 216, 255>>, ext |-> <<106, 112, 103>>]

PowerpointSlides ==
    { [shapes |-> sh] :
        sh \in { <<>>, <<TextShape(TxtIntro)>>, <<PictureShape(TRUE)>>,
                 <<TextShape(TxtBlank), PictureShape(TRUE)>>,
                 <<TextShape(TxtIntro), PictureShape(TRUE)>>,
                 <<TextShape(TxtNumbered), PictureShape(FALSE)>> } }

AdapterType == [word |-> "word", pdf |-> "pdf", excel |-> "excel",
                powerpoint |-> "powerpoint"]

(***************************************************************************)
(* One adapter run, element by element, then convert_to_qa_format.         *)
(***************************************************************************)
IdleBatch ==
    /\ files = <<>> /\ file_index = 0 /\ processed_count = 0
    /\ output_dir = <<>> /\ bpc = "idle"
IdleEnhance == answer = <<>> /\ enhanced = <<>>
IdleKeywords == kw_content = <<>> /\ kw_runs = <<>>
IdleAdapter ==
    /\ adapter = "none" /\ body = <<>> /\ content = None
    /\ current_section = None /\ apc = "idle" /\ qa_pairs = <<>>

InitAdapter ==
    /\ adapter \in DOMAIN AdapterType
    /\ body = <<>>
    /\ content = NewContent(Title, AdapterType[adapter])
    /\ current_section = NewSection(<<>>)
    /\ apc = "run"
    /\ qa_pairs = <<>>
    /\ log = <<>>
    /\ IdleBatch /\ IdleEnhance /\ IdleKeywords

\* the library cannot open the file: the except clause logs and returns None
AdapterFails ==
    /\ apc = "run" /\ body = <<>>
    /\ content' = None
    /\ log' = Append(log, LogRecord("error", "process_" \o adapter, Title))
    /\ apc' = "done"
    /\ UNCHANGED <<adapter, body, current_section, qa_pairs>>
    /\ UNCHANGED <<batchVars, enhanceVars, keywordVars>>

\* one iteration of "for element in doc.element.body"
WordStep ==
    /\ adapter = "word" /\ apc = "run" /\ Len(body) < MaxWordBody
    /\ \E element \in WordElements :
        LET st == WordElement([sections |-> content.sections,
                               current_section |-> current_section], element)
        IN  /\ body' = Append(body, element)
            /\ content' = [content EXCEPT !.sections = st.sections]
            /\ current_section' = st.current_section
    /\ UNCHANGED <<adapter, apc, qa_pairs, log>>
    /\ UNCHANGED <<batchVars, enhanceVars, keywordVars>>

\* the code after the loop: the last flush, the images, the return
WordFinish ==
    /\ adapter = "word" /\ apc = "run"
    /\ \E rels \in WordRels :
        /\ content' = WordEnd(content.title,
                              [sections |-> content.sections,
                               current_section |-> current_section], rels)
        /\ log' = log \o AssetWarnings(ImageRels(rels), "extract_word_images")
    /\ apc' = "done"
    /\ UNCHANGED <<adapter, body, current_section, qa_pairs>>
    /\ UNCHANGED <<batchVars, enhanceVars, keywordVars>>

\* one iteration of "for page_num in range(len(doc))"
PdfStep ==
    /\ adapter = "pdf" /\ apc = "run" /\ Len(body) < MaxBody
    /\ \E page \in PdfPages :
        /\ body' = Append(body, page)
        /\ content' = PdfPage(content, page, Len(body))
        /\ log' = log \o AssetWarnings(page.images, "process_pdf_image")
    /\ UNCHANGED <<adapter, current_section, apc, qa_pairs>>
    /\ UNCHANGED <<batchVars, enhanceVars, keywordVars>>

\* one iteration of "for sheet_name in workbook.sheetnames"
ExcelStep ==
    /\ adapter = "excel" /\ apc = "run" /\ Len(body) < MaxBody
    /\ \E sheet \in ExcelSheets :
        /\ body' = Append(body, sheet)
        /\ content' = ExcelSheet(content, sheet)
    /\ UNCHANGED <<adapter, current_section, apc, qa_pairs, log>>
    /\ UNCHANGED <<batchVars, enhanceVars, keywordVars>>

\* one iteration of "for slide_num, slide in enumerate(prs.slides)"
PowerpointStep ==
    /\ adapter = "powerpoint" /\ apc = "run" /\ Len(body) < MaxBody
    /\ \E slide \in PowerpointSlides :
        /\ body' = Append(body, slide)
        /\ content' = PowerpointSlide(content, slide, Len(body))
        /\ log' = log \o AssetWarnings(PictureShapes(slide.shapes), "process_powerpoint_image")
    /\ UNCHANGED <<adapter, current_section, apc, qa_pairs>>
    /\ UNCHANGED <<batchVars, enhanceVars, keywordVars>>

\* "return content" of process_pdf, process_excel and process_powerpoint
AdapterReturn ==
    /\ adapter # "word" /\ apc = "run"
    /\ apc' = "done"
    /\ UNCHANGED <<adapter, body, content, current_section, qa_pairs, log>>
    /\ UNCHANGED <<batchVars, enhanceVars, keywordVars>>

\* save_processed_content's first statement, on the content just returned
ConvertToQa ==
    /\ apc = "done" /\ content # None
    /\ qa_pairs' = convert_to_qa_format(content)
    /\ apc' = "qa"
    /\ UNCHANGED <<adapter, body, content, current_section, log>>
    /\ UNCHANGED <<batchVars, enhanceVars, keywordVars>>

NextAdapter ==
    \/ AdapterFails
    \/ WordStep
    \/ WordFinish
    \/ PdfStep
    \/ ExcelStep
    \/ PowerpointStep
    \/ AdapterReturn
    \/ ConvertToQa

SpecAdapter == InitAdapter /\ [][NextAdapter]_vars

(***************************************************************************)
(* Properties of the adapters and of convert_to_qa_format.                 *)
(***************************************************************************)
Sections == IF content = None THEN <<>> ELSE content.sections

\* the sheets the adapter has read that have a row with a non-null cell
SheetHasData(sheet) ==
    \E r \in 1..Len(sheet.rows) : \E i \in 1..Len(sheet.rows[r]) : sheet.rows[r][i] # None

DataSheets == SelectSeq(body, SheetHasData)

\* the indices of the pairs made from section n that have the given type
PairsOf(n, type) ==
    { k \in 1..Len(qa_pairs) : qa_pairs[k].type = type /\ qa_pairs[k].origin[1] = n }

\* C3: every worksheet with a non-null cell yields one section headed
\* "工作表: <name>" with one table holding the sheet's rows and no headers, and
\* convert_to_qa_format emits exactly one table pair for that section, whose
\* keywords are exactly [heading].
C3_WorkbookToQa ==
    (adapter = "excel" /\ apc = "qa") =>
        /\ Len(Sections) = Len(DataSheets)
        /\ \A n \in 1..Len(Sections) :
            /\ Sections[n].heading = SheetPrefix \o DataSheets[n].name
            /\ Len(Sections[n].tables) = 1
            /\ TableGet(Sections[n].tables[1], "headers") = <<>>
            /\ Cardinality(PairsOf(n, "table")) = 1
            /\ \A k \in PairsOf(n, "table") : qa_pairs[k].keywords = <<Sections[n].heading>>

\* C6 as stated: every section process_word emits has a heading that
\* is_heading accepts, or an empty heading, and only the first section's
\* heading is empty.
C6_HeadingsClassified ==
    adapter = "word" =>
        \A n \in 1..Len(Sections) :
            \/ is_heading(Sections[n].heading)
            \/ (Sections[n].heading = <<>> /\ n = 1)

\* C6 amended: every section process_word emits has a heading that is the
\* trimmed text of a paragraph whose style name starts with "Heading" or
\* whose trimmed text is_heading accepts, or an empty heading, and only the
\* first section's heading is empty.
C6_HeadingsFromHeadingParagraphs ==
    adapter = "word" =>
        \A n \in 1..Len(Sections) :
            \/ \E b \in 1..Len(body) :
                /\ body[b].kind = "p"
                /\ Sections[n].heading = Strip(body[b].text)
                /\ Sections[n].heading # <<>>
                /\ \/ StartsWith(body[b].style, HeadingPrefix)
                   \/ is_heading(Strip(body[b].text))
            \/ (Sections[n].heading = <<>> /\ n = 1)

\* a section headed by a heading-styled paragraph that is_heading rejects,
\* after a leading section with no heading
C6_Witness ==
    /\ adapter = "word" /\ apc = "done" /\ Len(Sections) = 2
    /\ Sections[1].heading = <<>>
    /\ Sections[2].heading = TxtIntro
    /\ ~is_heading(TxtIntro)

\* C9: every section in content['sections'] has text that is non-empty after
\* trimming or a non-empty list of tables, at every point of every adapter.
C9_SectionRetention ==
    \A n \in 1..Len(Sections) :
        Strip(Sections[n].content) # <<>> \/ Sections[n].tables # <<>>

IsHeadingElement(element) ==
    /\ element.kind = "p"
    /\ Strip(element.text) # <<>>
    /\ (StartsWith(element.style, HeadingPrefix) \/ is_heading(Strip(element.text)))

\* process_word met two headings in a row, so that the flush on the second
\* and the flush at the end both ran, and kept one section
C9_Witness ==
    /\ adapter = "word" /\ apc = "done" /\ Len(body) = 3
    /\ IsHeadingElement(body[1]) /\ IsHeadingElement(body[2])
    /\ Len(Sections) = 1
    /\ Sections[1].heading = Strip(body[2].text)

\* lexicographic order of origins
OriginBefore(o1, o2) == o1[1] < o2[1] \/ (o1[1] = o2[1] /\ o1[2] < o2[2])

\* C10: the list convert_to_qa_format returns follows section order; within a
\* section the text pair (made iff the text is non-blank) precedes the table
\* pairs, which keep table order; the image pairs come after all of them, one
\* per entry of content['images'] in list order, numbered 1..n.
C10_QaOrdering ==
    apc = "qa" =>
        LET ns == Len(Sections)
            ni == Len(content.images)
            np == Len(qa_pairs)
            base == SourcePrefix \o content.title
        IN  /\ \A k \in 1..(np - 1) : OriginBefore(qa_pairs[k].origin, qa_pairs[k + 1].origin)
            /\ \A k \in 1..np :
                LET o == qa_pairs[k].origin
                IN  /\ (qa_pairs[k].type = "image") <=> (o[1] = ns + 1)
                    /\ (qa_pairs[k].type = "text") <=> (o[1] <= ns /\ o[2] = 0)
                    /\ qa_pairs[k].type = "text" =>
                        StartsWith(qa_pairs[k].answer,
                                   base \o <<10, 10>>
                                   \o CollapseNewlines(Strip(Sections[o[1]].content)))
                    /\ qa_pairs[k].type = "table" =>
                        /\ o[2] \in 1..Len(Sections[o[1]].tables)
                        /\ qa_pairs[k].keywords =
                              Append(Sections[o[1]].tables[o[2]].headers, Sections[o[1]].heading)
            /\ \A n \in 1..ns :
                (Strip(Sections[n].content) # <<>>) <=> (PairsOf(n, "text") # {})
            /\ np >= ni
            /\ \A i \in 1..ni :
                LET q == qa_pairs[np - ni + i]
                IN  /\ q.type = "image"
                    /\ q.question = content.title \o PicIn \o Decimal(i)
                    /\ q.image_data = content.images[i].data
            /\ Cardinality({ k \in 1..np : qa_pairs[k].type = "image" }) = ni

\* two sections, the first with its text pair before its table pair, and two
\* image pairs after them
C10_Witness ==
    /\ apc = "qa" /\ Len(Sections) = 2 /\ Len(qa_pairs) = 5
    /\ qa_pairs[1].type = "text"  /\ qa_pairs[1].origin = <<1, 0>>
    /\ qa_pairs[2].type = "table" /\ qa_pairs[2].origin = <<1, 1>>
    /\ qa_pairs[3].origin[1] = 2
    /\ qa_pairs[4].type = "image" /\ qa_pairs[5].type = "image"

\* slide k of the deck read so far has no text left after trimming
TextlessSlide(k) == Strip(SlideText(body[k].shapes)) = <<>>

\* page k of the document read so far has no text left after trimming
TextlessPage(k) == Strip(body[k].text) = <<>>

\* the positions in content.images of the pictures taken from slide k
ImagesOfSlide(k) == { i \in 1..Len(content.images) : content.images[i].slide = k }

\* the positions in content.images of the pictures taken from page k
ImagesOfPage(k) == { i \in 1..Len(content.images) : content.images[i].page = k }

\* the picture shapes of slide k whose image could be read
ReadablePictures(k) ==
    { j \in 1..Len(body[k].shapes) : body[k].shapes[j].picture /\ body[k].shapes[j].readable }

\* the images of page k that could be read and have fewer than five channels
SavedPageImages(k) ==
    { j \in 1..Len(body[k].images) :
        body[k].images[j].readable /\ body[k].images[j].n < MaxPngChannels }

\* the image pairs that say they come from slide k
ImagePairsOfSlide(k) ==
    { q \in 1..Len(qa_pairs) :
        /\ qa_pairs[q].type = "image"
        /\ \E i \in ImagesOfSlide(k) :
            qa_pairs[q] = WithOrigin(create_image_qa(content.title, content.images[i], i - 1,
                                                     SourcePrefix \o content.title),
                                     Len(content.sections) + 1, i) }

\* C11 as stated: a slide whose text is empty after trimming is dropped
\* together with its pictures: no image of that slide is in the content and
\* no image pair is made for it, while a page of a paginated document keeps
\* its images when its text is whitespace only.
C11_TextlessSlideDropsPictures ==
    content # None =>
        /\ adapter = "powerpoint" =>
            \A k \in 1..Len(body) :
                TextlessSlide(k) =>
                    /\ ImagesOfSlide(k) = {}
                    /\ apc = "qa" => ImagePairsOfSlide(k) = {}
        /\ adapter = "pdf" =>
            \A k \in 1..Len(body) :
                Cardinality(ImagesOfPage(k)) = Cardinality(SavedPageImages(k))

\* C11 amended: a slide whose text is empty after trimming yields no section,
\* but every readable picture of every slide, with or without text, is one
\* image of the content carrying the slide's number, and one image pair is
\* made for each of them; the paginated-document adapter does the same with
\* the images of a page.
C11_SlidePicturesKept ==
    content # None =>
        /\ adapter = "powerpoint" =>
            /\ Len(content.sections) =
                  Cardinality({ k \in 1..Len(body) : ~TextlessSlide(k) })
            /\ \A k \in 1..Len(body) :
                /\ TextlessSlide(k) =>
                      \A n \in 1..Len(content.sections) :
                          content.sections[n].heading # SlidePrefix \o Decimal(k)
                /\ Cardinality(ImagesOfSlide(k)) = Cardinality(ReadablePictures(k))
                /\ apc = "qa" =>
                      Cardinality(ImagePairsOfSlide(k)) = Cardinality(ReadablePictures(k))
        /\ adapter = "pdf" =>
            /\ Len(content.sections) =
                  Cardinality({ k \in 1..Len(body) : ~TextlessPage(k) })
            /\ \A k \in 1..Len(body) :
                Cardinality(ImagesOfPage(k)) = Cardinality(SavedPageImages(k))

\* a deck has been synthesized whose first slide has a readable picture and
\* no text, and the picture's pair is among the Q&A pairs
C11_Witness ==
    /\ adapter = "powerpoint" /\ apc = "qa" /\ Len(body) >= 1
    /\ TextlessSlide(1)
    /\ ReadablePictures(1) # {}
    /\ ImagePairsOfSlide(1) # {}

(***************************************************************************)
(* enhance_answer applied to raw answers put together from a few pieces.   *)
(***************************************************************************)
MaxPieces == 4    \* pieces of one raw answer

AnswerPieces ==
    { <<83, 69, 76, 69, 67, 84>>,            \* "SELECT"
      <<100, 114, 111, 112>>,                \* "drop"
      <<32>>, <<10>>, <<42>>, <<59>>,        \* " ", "\n", "*", ";"
      <<117, 115, 101, 114, 115>>,           \* "users"
      <<27493, 39588, 49, 65306, 97>> }      \* "步骤1：a"

Answers ==
    UNION { { Concat(ps) : ps \in [1..n -> AnswerPieces] } : n \in 0..MaxPieces }

BaseContext == SourcePrefix \o Title

InitEnhance ==
    /\ answer \in Answers
    /\ enhanced = None
    /\ log = <<>>
    /\ IdleAdapter /\ IdleBatch /\ IdleKeywords

Enhance ==
    /\ enhanced = None
    /\ enhanced' = enhance_answer(answer, BaseContext)
    /\ UNCHANGED <<answer, log>>
    /\ UNCHANGED <<adapterVars, batchVars, keywordVars>>

NextEnhance == Enhance

SpecEnhance == InitEnhance /\ [][NextEnhance]_vars

\* C5: when the raw answer holds SQL statements the pattern matches, the
\* enhanced text holds, under the heading "相关SQL语句：", one fenced block per
\* match with the whole matched statement, in the order found.
C5_SqlPreserved ==
    (enhanced # None /\ SqlStatements(answer) # <<>>) =>
        Contains(enhanced, SqlHeading \o SqlBlocks(SqlStatements(answer)))

(***************************************************************************)
(* extract_keywords.  list(set(important_words)) lists the distinct runs   *)
(* in the iteration order of a set of str, which follows the string hashes *)
(* and so the interpreter's per-process hash seed: the ten runs kept are   *)
(* any ten of them.  The keyword list is modelled by its set of members;   *)
(* its order, which varies in the same way, is not.                        *)
(***************************************************************************)
tech_keywords ==
    << <<83, 82, 77, 83>>,
       <<83, 81, 76>>,
       <<73, 69>>,
       <<69, 100, 103, 101>>,
       <<76, 111, 103, 105, 110>>,
       <<66, 97, 116, 99, 104>>,
       <<74, 111, 117, 114, 110, 97, 108>>,
       <<68, 101, 109, 97, 110, 100, 32, 78, 111, 116, 101>>,
       <<83, 80, 83>>,
       <<79, 99, 99, 117, 112, 97, 110, 116>>,
       <<66, 117, 105, 108, 100, 105, 110, 103, 32, 73, 68>>,
       <<67, 97, 115, 104, 84, 121, 112, 101>>,
       <<83, 121, 110, 101, 114, 103, 105, 115>>,
       <<67, 111, 109, 109, 117, 110, 105, 116, 121, 32, 65, 112, 112>>,
       <<70, 97, 99, 105, 108, 105, 116, 121, 32, 66, 111, 111, 107, 105, 110, 103>> >>

action_keywords ==
    << <<35774, 32622>>,
       <<37197, 32622>>,
       <<30331, 24405>>,
       <<21024, 38500>>,
       <<26356, 26032>>,
       <<23548, 20986>>,
       <<21015, 21360>>,
       <<35299, 38145>>,
       <<20462, 22797>>,
       <<22788, 29702>>,
       <<35299, 20915>>,
       <<23433, 35013>>,
       <<27880, 20876>>,
       <<19978, 20256>>,
       <<19979, 36733>> >>

KeywordLimit == 10

SeqRange(q) == { q[i] : i \in 1..Len(q) }

\* the members of tech_keywords + action_keywords found in the content
FixedKeywords(c) ==
    { k \in SeqRange(tech_keywords \o action_keywords) : Contains(Lower(c), Lower(k)) }

\* re.findall(r'[一-鿿]{2,}', content), from index i on
RECURSIVE CjkRuns(_, _)
CjkRuns(c, i) ==
    IF i > Len(c) THEN <<>>
    ELSE LET j == RunEnd(c, i, "cjk")
         IN  IF j - i >= 2 THEN <<SubSeq(c, i, j - 1)>> \o CjkRuns(c, j)
             ELSE CjkRuns(c, IF j > i THEN j ELSE i + 1)

Min(a, b) == IF a < b THEN a ELSE b

\* the slices list(set(important_words))[:10] can be
KeptRuns(c) ==
    LET distinct == SeqRange(CjkRuns(c, 1))
    IN  { kept \in SUBSET distinct : Cardinality(kept) = Min(KeywordLimit, Cardinality(distinct)) }

\* the member sets extract_keywords(content) can return
extract_keywords(c) == { FixedKeywords(c) \cup kept : kept \in KeptRuns(c) }

MaxCjkRuns == 11   \* distinct CJK runs in one content

\* the k-th run of the inputs
Run(k) == <<20000 + k, 20100 + k>>

\* "SQL" followed by the first n runs, each after a blank
RECURSIVE KeywordContent(_)
KeywordContent(n) ==
    IF n = 0 THEN <<83, 81, 76>> ELSE KeywordContent(n - 1) \o <<32>> \o Run(n)

InitKeywords ==
    /\ kw_content \in { KeywordContent(n) : n \in 0..MaxCjkRuns }
    /\ kw_runs = [r \in {1, 2} |-> None]
    /\ log = <<>>
    /\ IdleAdapter /\ IdleBatch /\ IdleEnhance

\* run r of the pipeline reaches extract_keywords for this content
ExtractKeywords(r) ==
    /\ kw_runs[r] = None
    /\ \E result \in extract_keywords(kw_content) :
        kw_runs' = [kw_runs EXCEPT ![r] = [keywords |-> result]]
    /\ UNCHANGED <<kw_content, log>>
    /\ UNCHANGED <<adapterVars, batchVars, enhanceVars>>

NextKeywords == \E r \in {1, 2} : ExtractKeywords(r)

SpecKeywords == InitKeywords /\ [][NextKeywords]_vars

\* C4: two runs over the same content give the same keyword list.
C4_SameKeywords ==
    (kw_runs[1] # None /\ kw_runs[2] # None) => kw_runs[1] = kw_runs[2]

(***************************************************************************)
(* The adapters as whole calls on a file [stem, suffix, corrupt, doc],     *)
(* doc being [body, rels]: the loops above run to their end.  A corrupt    *)
(* file makes the library's open raise, which each adapter catches.        *)
(***************************************************************************)
RECURSIVE WordFold(_, _)
WordFold(st, elements) ==
    IF elements = <<>> THEN st
    ELSE WordFold(WordElement(st, Head(elements)), Tail(elements))

process_word(file) ==
    IF file.corrupt THEN None
    ELSE WordEnd(file.stem,
                 WordFold([sections |-> <<>>, current_section |-> NewSection(<<>>)],
                          file.doc.body),
                 file.doc.rels)

RECURSIVE PdfFold(_, _, _)
PdfFold(c, pages, page_num) ==
    IF page_num >= Len(pages) THEN c
    ELSE PdfFold(PdfPage(c, pages[page_num + 1], page_num), pages, page_num + 1)

process_pdf(file) ==
    IF file.corrupt THEN None
    ELSE PdfFold(NewContent(file.stem, "pdf"), file.doc.body, 0)

RECURSIVE ExcelFold(_, _)
ExcelFold(c, sheets) ==
    IF sheets = <<>> THEN c ELSE ExcelFold(ExcelSheet(c, Head(sheets)), Tail(sheets))

process_excel(file) ==
    IF file.corrupt THEN None
    ELSE ExcelFold(NewContent(file.stem, "excel"), file.doc.body)

RECURSIVE PowerpointFold(_, _, _)
PowerpointFold(c, slides, slide_num) ==
    IF slide_num >= Len(slides) THEN c
    ELSE PowerpointFold(PowerpointSlide(c, slides[slide_num + 1], slide_num),
                        slides, slide_num + 1)

process_powerpoint(file) ==
    IF file.corrupt THEN None
    ELSE PowerpointFold(NewContent(file.stem, "powerpoint"), file.doc.body, 0)

FilePath(file) == file.stem \o file.suffix

\* what the adapter logs while it runs on the file
RECURSIVE BodyWarnings(_, _)
BodyWarnings(units, adapter_name) ==
    IF units = <<>> THEN <<>>
    ELSE (IF adapter_name = "pdf"
          THEN AssetWarnings(Head(units).images, "process_pdf_image")
          ELSE IF adapter_name = "powerpoint"
          THEN AssetWarnings(PictureShapes(Head(units).shapes), "process_powerpoint_image")
          ELSE <<>>)
         \o BodyWarnings(Tail(units), adapter_name)

AdapterLog(adapter_name, file) ==
    IF file.corrupt THEN <<LogRecord("error", "process_" \o adapter_name, FilePath(file))>>
    ELSE IF adapter_name = "word"
    THEN AssetWarnings(ImageRels(file.doc.rels), "extract_word_images")
    ELSE BodyWarnings(file.doc.body, adapter_name)

(***************************************************************************)
(* self.supported_formats, process_single_document and                     *)
(* save_processed_content.  A call gives the writes it makes to the output *)
(* directory, the records it logs and whether it raised; io says which of  *)
(* the two writes the file system refuses, if any.                         *)
(***************************************************************************)
ExtDocx == <<46, 100, 111, 99, 120>>
ExtDoc  == <<46, 100, 111, 99>>
ExtPdf  == <<46, 112, 100, 102>>
ExtXlsx == <<46, 120, 108, 115, 120>>
ExtXls  == <<46, 120, 108, 115>>
ExtPptx == <<46, 112, 112, 116, 120>>
ExtPpt  == <<46, 112, 112, 116>>

supported_formats ==
    (ExtDocx :> "word") @@ (ExtDoc :> "word") @@ (ExtPdf :> "pdf")
    @@ (ExtXlsx :> "excel") @@ (ExtXls :> "excel")
    @@ (ExtPptx :> "powerpoint") @@ (ExtPpt :> "powerpoint")

RunAdapter(adapter_name, file) ==
    CASE adapter_name = "word"       -> process_word(file)
      [] adapter_name = "pdf"        -> process_pdf(file)
      [] adapter_name = "excel"      -> process_excel(file)
      [] adapter_name = "powerpoint" -> process_powerpoint(file)

ProcessedDocx == <<95, 112, 114, 111, 99, 101, 115, 115, 101, 100, 46, 100, 111, 99, 120>>
DataJson      == <<95, 100, 97, 116, 97, 46, 106, 115, 111, 110>>

\* f"{self.processed_count:02d}_{original_file.stem}<tail>"
OutputName(count, stem, tail) == Format02d(count) \o <<95>> \o stem \o tail

Write(name, file) == [name |-> name, source |-> FilePath(file)]

IoOutcomes == {"ok", "docx_fails", "json_fails"}

Outcome(writes, records, raised) == [writes |-> writes, log |-> records, raised |-> raised]

\* a save that writes both files whatever the Q&A list holds
save_without_empty_check(count, file, c, io) ==
    Outcome(<<Write(OutputName(count, file.stem, ProcessedDocx), file),
              Write(OutputName(count, file.stem, DataJson), file)>>,
            <<LogRecord("info", "saved", OutputName(count, file.stem, ProcessedDocx))>>,
            FALSE)

save_processed_content(count, file, c, io) ==
    IF convert_to_qa_format(c) = <<>>
    THEN Outcome(<<>>, <<LogRecord("warning", "no_qa", FilePath(file))>>, FALSE)
    ELSE IF io = "docx_fails" THEN Outcome(<<>>, <<>>, TRUE)
    ELSE IF io = "json_fails"
    THEN Outcome(<<Write(OutputName(count, file.stem, ProcessedDocx), file)>>, <<>>, TRUE)
    ELSE Outcome(<<Write(OutputName(count, file.stem, ProcessedDocx), file),
                   Write(OutputName(count, file.stem, DataJson), file)>>,
                 <<LogRecord("info", "saved", OutputName(count, file.stem, ProcessedDocx))>>,
                 FALSE)

Supported(file) == Lower(file.suffix) \in DOMAIN supported_formats

process_single_document(count, file, io) ==
    IF Supported(file)
    THEN LET adapter_name == supported_formats[Lower(file.suffix)]
             c == RunAdapter(adapter_name, file)
             saved == IF c # None THEN save_processed_content(count, file, c, io)
                      ELSE Outcome(<<>>, <<>>, FALSE)
         IN  Outcome(saved.writes, AdapterLog(adapter_name, file) \o saved.log, saved.raised)
    ELSE Outcome(<<>>, <<LogRecord("warning", "unsupported", Lower(file.suffix))>>, FALSE)

(***************************************************************************)
(* The files of the input directory.                                       *)
(***************************************************************************)
MaxFiles == 3     \* files os.walk yields

File(stem, suffix, corrupt, units, rels) ==
    [stem |-> stem, suffix |-> suffix, corrupt |-> corrupt,
     doc |-> [body |-> units, rels |-> rels]]

StemA == <<97>>
StemB == <<98>>
StemC == <<99>>
StemN == <<110>>
StemE == <<101>>

GoodDocx    == File(StemA, ExtDocx, FALSE, <<Paragraph(StyleNormal, TxtIntro)>>, <<>>)
CorruptDocx == File(StemB, ExtDocx, TRUE, <<>>, <<>>)
GoodPdf     == File(StemA, ExtPdf, FALSE, <<[text |-> TxtIntro, images |-> <<>>]>>, <<>>)
Workbook    == File(StemC, ExtXlsx, FALSE,
                    <<[name |-> Sheet1, rows |-> << <<Name, Age>>, <<Bob, Thirty>> >>]>>, <<>>)
TextFile    == File(StemN, <<46, 116, 120, 116>>, FALSE, <<>>, <<>>)
GoodPptx    == File(StemE, <<46, 80, 80, 84, 88>>, FALSE,
                    <<[shapes |-> <<TextShape(TxtIntro), PictureShape(TRUE)>>]>>, <<>>)

FileCatalog == {GoodDocx, CorruptDocx, GoodPdf, Workbook, TextFile, GoodPptx}

\* the walks of a directory: each file is met once
Walks ==
    UNION { { w \in [1..n -> FileCatalog] : \A i, j \in 1..n : w[i] = w[j] => i = j } :
            n \in 0..MaxFiles }

(***************************************************************************)
(* process_all_documents                                                   *)
(***************************************************************************)
Init ==
    /\ files \in Walks
    /\ file_index = 0
    /\ processed_count = 0
    /\ output_dir = <<>>
    /\ log = <<LogRecord("info", "start", <<>>)>>
    /\ bpc = "walk"
    /\ IdleAdapter /\ IdleEnhance /\ IdleKeywords

\* an iteration of "for file in files" whose "if" is false
SkipFile ==
    /\ bpc = "walk" /\ file_index < Len(files)
    /\ ~Supported(files[file_index + 1])
    /\ file_index' = file_index + 1
    /\ UNCHANGED <<files, processed_count, output_dir, bpc, log>>
    /\ UNCHANGED <<adapterVars, enhanceVars, keywordVars>>

\* an iteration of "for file in files" that enters the try block
ProcessFile ==
    /\ bpc = "walk" /\ file_index < Len(files)
    /\ Supported(files[file_index + 1])
    /\ \E io \in IoOutcomes :
       \E done \in {process_single_document(processed_count, files[file_index + 1], io)} :
        /\ output_dir' = output_dir \o done.writes
        /\ log' = log
                  \o <<LogRecord("info", "process_file", FilePath(files[file_index + 1]))>>
                  \o done.log
                  \o (IF done.raised
                      THEN <<LogRecord("error", "process_all_documents",
                                       FilePath(files[file_index + 1]))>>
                      ELSE <<>>)
        /\ processed_count' = IF done.raised THEN processed_count ELSE processed_count + 1
    /\ file_index' = file_index + 1
    /\ UNCHANGED <<files, bpc>>
    /\ UNCHANGED <<adapterVars, enhanceVars, keywordVars>>

\* the statement after the loops
Finish ==
    /\ bpc = "walk" /\ file_index = Len(files)
    /\ log' = Append(log, LogRecord("info", "finished", Decimal(processed_count)))
    /\ bpc' = "done"
    /\ UNCHANGED <<files, file_index, processed_count, output_dir>>
    /\ UNCHANGED <<adapterVars, enhanceVars, keywordVars>>

Next ==
    \/ SkipFile
    \/ ProcessFile
    \/ Finish

Spec == Init /\ [][Next]_vars

(***************************************************************************)
(* Properties of the batch driver.                                         *)
(***************************************************************************)
Logged(level, event, path) == \E k \in 1..Len(log) : log[k] = LogRecord(level, event, path)

\* the positions in output_dir of the writes made for file i
WritesOf(i) == { k \in 1..Len(output_dir) : output_dir[k].source = FilePath(files[i]) }

IsCorrupt(i) == Supported(files[i]) /\ files[i].corrupt

\* file i is supported and parsed, and its content gives no Q&A pair
IsEmptySynthesis(i) ==
    /\ Supported(files[i])
    /\ LET c == RunAdapter(supported_formats[Lower(files[i].suffix)], files[i])
       IN  c # None /\ convert_to_qa_format(c) = <<>>

\* some call of process_single_document raised
SaveRaised == \E k \in 1..Len(log) : log[k].event = "process_all_documents"

\* both output files of file i are in the output directory
FullyWritten(i) ==
    /\ \E k \in WritesOf(i) : \E n \in 0..MaxFiles :
            output_dir[k].name = OutputName(n, files[i].stem, ProcessedDocx)
    /\ \E k \in WritesOf(i) : \E n \in 0..MaxFiles :
            output_dir[k].name = OutputName(n, files[i].stem, DataJson)

\* C1: when some file of the batch is corrupt, the driver still processes
\* every other file, logs an error for the corrupt one, and the final
\* processed_count is the number of files that are not corrupt.
C1_FailureIsolation ==
    bpc = "done" =>
        /\ \A i \in 1..Len(files) :
            IsCorrupt(i) => \E k \in 1..Len(log) :
                                log[k].level = "error" /\ log[k].path = FilePath(files[i])
        /\ \A i \in 1..Len(files) :
            (Supported(files[i]) /\ ~files[i].corrupt) =>
                Logged("info", "process_file", FilePath(files[i]))
        /\ ~SaveRaised =>
            processed_count =
                Cardinality({ i \in 1..Len(files) : Supported(files[i]) /\ ~files[i].corrupt })

\* C2: the counter in both output filenames of a file is the number of files
\* before it that were processed successfully; a file skipped because its
\* adapter failed or because it gave no Q&A pair does not advance it.
C2_CounterIsSuccessCount ==
    \A i \in 1..file_index : \A k \in WritesOf(i) :
        LET successes == Cardinality({ j \in 1..(i - 1) : FullyWritten(j) })
        IN  output_dir[k].name \in
                { OutputName(successes, files[i].stem, ProcessedDocx),
                  OutputName(successes, files[i].stem, DataJson) }

\* C7: when a supported file's content gives no Q&A pair, a warning is
\* logged, neither output file is written for it, and the driver goes on to
\* the files after it.
C7_EmptySynthesis ==
    \A i \in 1..file_index :
        IsEmptySynthesis(i) =>
            /\ Logged("warning", "no_qa", FilePath(files[i]))
            /\ WritesOf(i) = {}
            /\ \A j \in (i + 1)..file_index :
                Supported(files[j]) =>
                    \E k, m \in 1..Len(log) :
                        /\ k < m
                        /\ log[k] = LogRecord("warning", "no_qa", FilePath(files[i]))
                        /\ log[m] = LogRecord("info", "process_file", FilePath(files[j]))

\* a file with no Q&A pair has been passed, and a later file wrote its output
C7_Witness ==
    \E i, j \in 1..file_index :
        /\ i < j
        /\ IsEmptySynthesis(i)
        /\ FullyWritten(j)

\* C8: for every file whose extension is not in the adapter table the driver
\* logs a warning and no error, writes nothing, and does not count the file.
C8_UnsupportedWarned ==
    \A i \in 1..file_index :
        ~Supported(files[i]) =>
            /\ \E k \in 1..Len(log) :
                /\ log[k].level = "warning"
                /\ log[k].event = "unsupported"
                /\ log[k].path = Lower(files[i].suffix)
            /\ \A k \in 1..Len(log) :
                log[k].level = "error" => log[k].path # FilePath(files[i])
            /\ WritesOf(i) = {}
            /\ processed_count <= Cardinality({ j \in 1..file_index : Supported(files[j]) })

\* C12: whatever files fail and wherever they fail, a failure between the
\* writing of the .docx and of the .json included, no output filename is
\* written for two different source files: the counter and stem used for
\* naming belong to one file only.
C12_NoOutputOverwrite ==
    \A k, m \in 1..Len(output_dir) :
        output_dir[k].name = output_dir[m].name =>
            output_dir[k].source = output_dir[m].source

=============================================================================
